---- MODULE Spec2Model ----
(***************************************************************************)
(* Model of notebooks/co2eq_analysis.ipynb: the response loader            *)
(* load_rf_dt and the seven climate-metric converters rf_co2eq, gwp_co2eq, *)
(* egwp_co2eq, gtp_co2eq, atr_co2eq, gwps_co2eq and egwps_co2eq.           *)
(*                                                                         *)
(* numpy arrays are functions over 0-based index ranges, so that every     *)
(* index below is the index the Python code uses.  Floating-point numbers  *)
(* are exact rationals [n, d] extended with the IEEE specials NaN and      *)
(* +/-Inf (d = 0), so a division by zero yields what numpy yields.         *)
(***************************************************************************)
EXTENDS Integers, Sequences, FiniteSets, TLC

VARIABLES directory, pc, rf_arr, dt_arr, years, co2_emis, res, ncalls, args0

vars == <<directory, pc, rf_arr, dt_arr, years, co2_emis, res, ncalls, args0>>

----------------------------------------------------------------------------
(* Numbers *)

Abs(x) == IF x < 0 THEN -x ELSE x

Sign(x) == IF x < 0 THEN -1 ELSE IF x > 0 THEN 1 ELSE 0

Min(a, b) == IF a < b THEN a ELSE b

Max(a, b) == IF a > b THEN a ELSE b

RECURSIVE GCD(_, _)
GCD(a, b) == IF b = 0 THEN a ELSE GCD(b, a % b)

NaN == [n |-> 0, d |-> 0]

Inf(s) == [n |-> s, d |-> 0]

\* the float n/d, in lowest terms (d /= 0)
Rat(n, d) ==
  LET g == GCD(Abs(n), Abs(d))
      s == IF d < 0 THEN -1 ELSE 1
  IN [n |-> s * (n \div g), d |-> s * (d \div g)]

R(k) == [n |-> k, d |-> 1]

IsNaN(x) == x.d = 0 /\ x.n = 0

IsInf(x) == x.d = 0 /\ x.n # 0

IsFinite(x) == x.d # 0

\* float addition
RAdd(x, y) ==
  IF IsNaN(x) \/ IsNaN(y) THEN NaN
  ELSE IF IsInf(x) /\ IsInf(y) THEN (IF x.n = y.n THEN x ELSE NaN)
  ELSE IF IsInf(x) THEN x
  ELSE IF IsInf(y) THEN y
  ELSE LET g == GCD(x.d, y.d)
           l == (x.d \div g) * y.d
       IN Rat(x.n * (l \div x.d) + y.n * (l \div y.d), l)

RNeg(x) == [n |-> -x.n, d |-> x.d]

RSub(x, y) == RAdd(x, RNeg(y))

\* float multiplication
RMul(x, y) ==
  IF IsNaN(x) \/ IsNaN(y) THEN NaN
  ELSE IF IsInf(x) \/ IsInf(y)
       THEN (IF x.n = 0 \/ y.n = 0 THEN NaN ELSE Inf(Sign(x.n) * Sign(y.n)))
  ELSE LET g1 == GCD(Abs(x.n), y.d)
           g2 == GCD(Abs(y.n), x.d)
       IN [n |-> (x.n \div g1) * (y.n \div g2),
           d |-> (x.d \div g2) * (y.d \div g1)]

\* mutant: a division by zero is replaced by 0
RDivZeroSafe(x, y) ==
  IF IsNaN(x) \/ IsNaN(y) THEN NaN
  ELSE IF IsInf(y) THEN (IF IsInf(x) THEN NaN ELSE R(0))
  ELSE IF IsInf(x) THEN Inf(x.n * (IF y.n < 0 THEN -1 ELSE 1))
  ELSE IF y.n = 0 THEN R(0)
  ELSE RMul(x, Rat(y.d * Sign(y.n), Abs(y.n)))

\* float division: x / 0 is +/-Inf, 0 / 0 is NaN (numpy warns, does not raise)
RDiv(x, y) ==
  IF IsNaN(x) \/ IsNaN(y) THEN NaN
  ELSE IF IsInf(y) THEN (IF IsInf(x) THEN NaN ELSE R(0))
  ELSE IF IsInf(x) THEN Inf(x.n * (IF y.n < 0 THEN -1 ELSE 1))
  ELSE IF y.n = 0 THEN (IF x.n = 0 THEN NaN ELSE Inf(Sign(x.n)))
  ELSE RMul(x, Rat(y.d * Sign(y.n), Abs(y.n)))

----------------------------------------------------------------------------
(* numpy arrays *)

\* len(a) of a 1-D array
Len0(a) == Cardinality(DOMAIN a)

\* number of columns of a (rows, columns) array
NCols(a) == Len0(a[0])

\* a Python slice bound on a sequence of length n
Clip(i, n) == IF i < 0 THEN Max(i + n, 0) ELSE Min(i, n)

\* the source indices selected by [start:stop] on a sequence of length n
SliceIdx(n, start, stop) ==
  LET lo == Clip(start, n)
      hi == Clip(stop, n)
  IN [k \in 0..(hi - lo - 1) |-> lo + k]

\* np.arange(lo, hi); range(n) is Arange(0, n)
Arange(lo, hi) == [k \in 0..(hi - lo - 1) |-> lo + k]

Range(n) == Arange(0, n)

\* a[idx] for an integer index array idx, all indices within bounds
Take(a, idx) == [k \in DOMAIN idx |-> a[idx[k]]]

\* whether a[idx] raises IndexError (negative indices count from the end)
OutOfBounds(a, idx) == \E k \in DOMAIN idx : idx[k] >= Len0(a) \/ idx[k] < -Len0(a)

\* np.sum of a[lo], a[lo+1], ..., a[hi]; 0.0 when the range is empty
RECURSIVE SumTo(_, _, _)
SumTo(a, lo, hi) == IF hi < lo THEN R(0) ELSE RAdd(SumTo(a, lo, hi - 1), a[hi])

\* np.sum(a[rlo:rhi+1, :], axis=0)[t]
RECURSIVE ColSum(_, _, _, _)
ColSum(a, rlo, rhi, t) ==
  IF rhi < rlo THEN R(0) ELSE RAdd(ColSum(a, rlo, rhi - 1, t), a[rhi][t])

----------------------------------------------------------------------------
(* Bounds of the model and the program's constants *)

\* a short response series, shorter than the GWP* window
SmallT == 4

\* the longer response series have dt+1 .. dt+MaxTail years
MaxTail == 2

\* CO2_emis.txt holds up to MaxExtra more years than the response files
MaxExtra == 1

\* number of input scenarios (data directories)
NScen == 3

\* dt of gwps_co2eq and egwps_co2eq
dt == 20

\* rows of AGWPH_CO2_SSP2-45.txt (1 <= H <= 100)
AgwpRows == 100

Species == 0..5

Ts == {SmallT} \cup ((dt + 1)..(dt + MaxTail))

\* the files of a directory are well formed, or one file of one species
\* (RF_<sp> or dT_<sp>) has n data rows ("rows"), or a year column one year
\* off the shared axis ("years")
NoDefect == [kind |-> "none", file |-> "RF", sp |-> 0, n |-> 0]

Defects(T) ==
  [kind : {"rows"}, file : {"RF", "dT"}, sp : {1, 5}, n : {1, T - 1, T + 1}]
    \cup [kind : {"years"}, file : {"RF", "dT"}, sp : {1, 5}, n : {T}]

Directories == [scen : 1..NScen, T : Ts, extra : 0..MaxExtra, defect : {NoDefect}]

DefectDirectories ==
  UNION {[scen : {2}, T : {T}, extra : {0}, defect : Defects(T)] : T \in Ts}

\* the synthetic end-to-end series: 250 years, CO2 response constant 10, every
\* other species constant 1, CO2 emissions constant 100
EndToEnd == [scen |-> 0, T |-> 250, extra |-> 0, defect |-> NoDefect]

\* synthetic series in which every species' forcing is constant 1.0
UnitDirectories == [scen : {-1}, T : Ts, extra : {0}, defect : {NoDefect}]

\* the horizon of the figure: met_co2eq_lst[j](100, ...)
DriverH == 100

\* calls made on one set of loaded arrays
MaxCalls == 2

\* horizons with which a caller goes on to further converters
RepeatHorizons == {10}

\* time horizons passed by the callers
Horizons(T) == {-1, 0, 1, 2, 3, 10, T - 1, T, T + 1, DriverH, DriverH + 1}

----------------------------------------------------------------------------
(* The data files of a directory *)

\* a response value of species i in year index k: a period-3 pattern on a
\* slow trend that differs between the species; CH4 (i = 3) is negative.  In
\* scenarios 0 and 1 every response is constant (CO2 10, every other species
\* 1); in scenario 3 the CO2 response is zero in the year indices 0, 1 and 3;
\* in scenario -1 every response is constant 1.
Pattern(scen, i, k) ==
  IF scen = -1 THEN 1
  ELSE IF scen <= 1 THEN (IF i = 0 THEN 10 ELSE 1)
  ELSE IF scen = 3 /\ i = 0 /\ k \in {0, 1, 3} THEN 0
  ELSE (IF i = 3 THEN -1 ELSE 1) * (((k * (i + 2) + i) % 3) + 1 + ((k + i) \div 4))

\* the number of data rows of the file ("RF" or "dT") of species i
FileRows(dir, file, i) ==
  IF dir.defect.kind = "rows" /\ dir.defect.file = file /\ dir.defect.sp = i
  THEN dir.defect.n
  ELSE dir.T

\* column 0 of the file ("RF" or "dT") of species i
FileYearColumn(dir, file, i) ==
  [k \in 0..(FileRows(dir, file, i) - 1) |->
     IF dir.defect.kind = "years" /\ dir.defect.file = file /\ dir.defect.sp = i
     THEN 1941 + k
     ELSE 1940 + k]

\* column 0 of RF_CO2_taumean_rfmean.txt
FileYears(dir) == FileYearColumn(dir, "RF", 0)

\* column 1 of RF_<species>_taumean_rfmean.txt, in mW m-2 (whole W m-2, but
\* for the unit series of scenario -1)
FileRF(dir, i) ==
  [k \in 0..(FileRows(dir, "RF", i) - 1) |->
     IF dir.scen = -1 THEN R(Pattern(dir.scen, i, k))
     ELSE R(1000 * Pattern(dir.scen, i, k))]

\* column 1 of dT_<species>_taumean_rfmean_lammean.txt
FileDT(dir, i) ==
  [k \in 0..(FileRows(dir, "dT", i) - 1) |-> R(Pattern(dir.scen, i, k + 1))]

\* column 1 of CO2_emis.txt
FileCO2Emis(dir) ==
  [k \in 0..(dir.T + dir.extra - 1) |-> IF dir.scen = 0 THEN R(100) ELSE R(k + 1)]

\* AGWPH_CO2_SSP2-45.txt: entry h is the AGWP of CO2 for H = h + 1
FileAGWP == [h \in 0..(AgwpRows - 1) |-> Rat(1 + ((h + 1) \div 40), 1000000000)]

----------------------------------------------------------------------------
(* load_rf_dt *)

\* mutant: the arrays start as np.ones((7, T))
PopulateOnes(T, files) ==
  [j \in 0..6 |-> [t \in 0..(T - 1) |->
     IF j = 0 THEN R(1)
     ELSE files[j - 1][IF Len0(files[j - 1]) = 1 THEN 0 ELSE t]]]

\* np.zeros((7, T)) with rf_arr[i + 1, :] = files[i] for every species i; the
\* one value of a single-row file (np.loadtxt returns it as a 0-d array) is
\* broadcast over the row
Populate(T, files) ==
  [j \in 0..6 |-> [t \in 0..(T - 1) |->
     IF j = 0 THEN R(0)
     ELSE files[j - 1][IF Len0(files[j - 1]) = 1 THEN 0 ELSE t]]]

\* rf_arr[i + 1, :] = files[i] raises ValueError when files[i] cannot be
\* broadcast to the T columns of the row
AssignFails(T, files) ==
  \E i \in Species : Len0(files[i]) \notin {T, 1}

\* rf_arr[0, :] = np.sum(rf_arr[:, :], axis=0)
AddTotals(arr) ==
  [j \in 0..6 |-> [t \in DOMAIN arr[0] |->
     IF j = 0 THEN ColSum(arr, 0, 6, t) ELSE arr[j][t]]]

load_rf_dt(dir) ==
  LET yrs == FileYears(dir)
      T == Len0(yrs)
      rf_files == [i \in Species |-> FileRF(dir, i)]
      dt_files == [i \in Species |-> FileDT(dir, i)]
  IN IF AssignFails(T, rf_files) \/ AssignFails(T, dt_files)
     THEN [outcome |-> "ValueError", rf_arr |-> <<>>, dt_arr |-> <<>>,
           years |-> <<>>]
     ELSE [outcome |-> "ok",
           rf_arr |-> AddTotals(Populate(T, rf_files)),
           dt_arr |-> AddTotals(Populate(T, dt_files)),
           years |-> yrs]

----------------------------------------------------------------------------
(* What a converter call comes to *)

\* a returned (table, indices) pair.  used[c] and emis[c] record which
\* response indices and which CO2_emissions index column c was computed from.
Returned(fn, H, table, idx, used, emis) ==
  [fn |-> fn, H |-> H, outcome |-> "ok", table |-> table, idx |-> idx,
   used |-> used, emis |-> emis]

\* an exception raised by numpy
Raised(fn, H, exc) ==
  [fn |-> fn, H |-> H, outcome |-> exc, table |-> <<>>, idx |-> <<>>,
   used |-> <<>>, emis |-> <<>>]

NoCall == Raised("none", 0, "none")

\* numpy broadcasting of a (7, n) array with an (m,) array
Broadcastable(n, m) == n = m \/ n = 1 \/ m = 1

BroadcastCols(n, m) == IF n = 1 THEN m ELSE n

\* tab * row for a (7, n) array tab and an (m,) array row (elementwise, broadcast)
MulCols(tab, row) ==
  LET n == NCols(tab)
      m == Len0(row)
  IN [j \in 0..6 |-> [c \in 0..(BroadcastCols(n, m) - 1) |->
        RMul(tab[j][IF n = 1 THEN 0 ELSE c], row[IF m = 1 THEN 0 ELSE c])]]

\* mutant: tab / tab[0, :]
DivByTotal(tab, r) ==
  [j \in 0..6 |-> [c \in DOMAIN tab[0] |-> RDiv(tab[j][c], tab[0][c])]]

\* tab / tab[r, :]
DivByRow(tab, r) ==
  [j \in 0..6 |-> [c \in DOMAIN tab[0] |-> RDiv(tab[j][c], tab[r][c])]]

\* tab[:, cols]
TakeCols(tab, cols) == [j \in 0..6 |-> Take(tab[j], cols)]

----------------------------------------------------------------------------
(* rf_co2eq *)

\* mutant: the last response year is kept (rf_lst[:, H:])
rf_cols_keep_last(H, rf_lst) == SliceIdx(NCols(rf_lst), H, NCols(rf_lst))

\* mutant: the first len(years) - H - 1 response years (rf_lst[:, :-H - 1])
rf_cols_head(H, rf_lst) == SliceIdx(NCols(rf_lst), 0, NCols(rf_lst) - H - 1)

\* the columns of rf_lst[:, H:-1]
rf_cols(H, rf_lst) == SliceIdx(NCols(rf_lst), H, -1)

\* mutant: the emissions of the response years themselves (CO2_emissions[H:-1])
rf_emis_same_year(H, yrs, CO2_emissions) ==
  SliceIdx(Len0(CO2_emissions), H, Len0(yrs) - 1)

\* the indices of CO2_emissions[:len(years)-H-1]
rf_emis(H, yrs, CO2_emissions) ==
  SliceIdx(Len0(CO2_emissions), 0, Len0(yrs) - H - 1)

rf_co2eq(H, forcing_profiles, temperature_profiles, yrs, CO2_emissions) ==
  LET rf_lst == forcing_profiles
      cols == rf_cols(H, rf_lst)
      rfr_lst == DivByRow(TakeCols(rf_lst, cols), 1)
      eidx == rf_emis(H, yrs, CO2_emissions)
      n == Len0(cols)
      m == Len0(eidx)
      w == BroadcastCols(n, m)
  IN IF ~Broadcastable(n, m) THEN Raised("rf", H, "ValueError")
     ELSE Returned("rf", H,
            MulCols(rfr_lst, Take(CO2_emissions, eidx)),
            Range(Len0(yrs) - H - 1),
            [c \in 0..(w - 1) |-> {cols[IF n = 1 THEN 0 ELSE c]}],
            [c \in 0..(w - 1) |-> eidx[IF m = 1 THEN 0 ELSE c]])

----------------------------------------------------------------------------
(* gwp_co2eq *)

\* mutant: the window runs to i + H inclusive
WindowSumInclusive(row, i, H) ==
  LET win == SliceIdx(Len0(row), i, i + H + 1)
  IN IF Len0(win) = 0 THEN R(0) ELSE SumTo(row, win[0], win[Len0(win) - 1])

\* np.sum(profiles[j, i:i + H])
WindowSum(row, i, H) ==
  LET win == SliceIdx(Len0(row), i, i + H)
  IN IF Len0(win) = 0 THEN R(0) ELSE SumTo(row, win[0], win[Len0(win) - 1])

\* [[np.sum(profiles[j, i:i + H]) for i in range(len(years) - H)] for j in range(7)]
ForwardSums(profiles, T, H) ==
  [j \in 0..6 |-> [i \in 0..(T - H - 1) |-> WindowSum(profiles[j], i, H)]]

\* the response indices of the window [i:i + H]
WindowUsed(profiles, T, H) ==
  [i \in 0..(T - H - 1) |->
     LET win == SliceIdx(NCols(profiles), i, i + H)
     IN {win[k] : k \in DOMAIN win}]

gwp_co2eq(H, forcing_profiles, temperature_profiles, yrs, CO2_emissions) ==
  LET T == Len0(yrs)
      agwp_lst == ForwardSums(forcing_profiles, T, H)
      gwp_lst == DivByRow(agwp_lst, 1)
      eidx == Range(T - H)
  IN IF OutOfBounds(CO2_emissions, eidx) THEN Raised("gwp", H, "IndexError")
     ELSE Returned("gwp", H,
            MulCols(gwp_lst, Take(CO2_emissions, eidx)),
            Range(T - H),
            WindowUsed(forcing_profiles, T, H),
            eidx)


----------------------------------------------------------------------------
(* egwp_co2eq *)

\* mutant: the efficacy of CO2 is left out, so every species takes the next
\* one's
efficacies_shifted ==
  [i \in Species |->
     CASE i = 0 -> Rat(114, 100)
       [] i = 1 -> Rat(137, 100)
       [] i = 2 -> Rat(118, 100)
       [] i = 3 -> Rat(59, 100)
       [] i = 4 -> R(1)
       [] i = 5 -> R(1)]

\* efficacies from Ponater et al. (2006), for CO2, H2O, O3, CH4, Cont, PMO
efficacies ==
  [i \in Species |->
     CASE i = 0 -> R(1)
       [] i = 1 -> Rat(114, 100)
       [] i = 2 -> Rat(137, 100)
       [] i = 3 -> Rat(118, 100)
       [] i = 4 -> Rat(59, 100)
       [] i = 5 -> R(1)]

\* mutant: tab[:6, :] = tab[:6, :] * efficacies.reshape((6, 1)), one row up
ScaleSpeciesFromRow0(tab) ==
  [j \in 0..6 |-> [c \in DOMAIN tab[0] |->
     IF j = 6 THEN tab[6][c] ELSE RMul(tab[j][c], efficacies[j])]]

\* tab[1:, :] = tab[1:, :] * efficacies.reshape((6, 1))
ScaleSpecies(tab) ==
  [j \in 0..6 |-> [c \in DOMAIN tab[0] |->
     IF j = 0 THEN tab[0][c] ELSE RMul(tab[j][c], efficacies[j - 1])]]

\* mutant: tab[0, :] = np.sum(tab[:, :], axis=0), as the loader sums
SumSpeciesAll(tab) ==
  [j \in 0..6 |-> [c \in DOMAIN tab[0] |->
     IF j = 0 THEN ColSum(tab, 0, 6, c) ELSE tab[j][c]]]

\* mutant: tab[0, :] = np.sum(tab[2:, :], axis=0)
SumSpeciesSkipCO2(tab) ==
  [j \in 0..6 |-> [c \in DOMAIN tab[0] |->
     IF j = 0 THEN ColSum(tab, 2, 6, c) ELSE tab[j][c]]]

\* tab[0, :] = np.sum(tab[1:, :], axis=0)
SumSpecies(tab) ==
  [j \in 0..6 |-> [c \in DOMAIN tab[0] |->
     IF j = 0 THEN ColSum(tab, 1, 6, c) ELSE tab[j][c]]]

\* aegwp_lst: the forward sums, scaled by the efficacies, under their total
aegwp_lst(H, forcing_profiles, T) ==
  SumSpecies(ScaleSpecies(ForwardSums(forcing_profiles, T, H)))

egwp_co2eq(H, forcing_profiles, temperature_profiles, yrs, CO2_emissions) ==
  LET T == Len0(yrs)
      egwp_lst == DivByRow(aegwp_lst(H, forcing_profiles, T), 1)
      eidx == Range(T - H)
  IN IF OutOfBounds(CO2_emissions, eidx) THEN Raised("egwp", H, "IndexError")
     ELSE Returned("egwp", H,
            MulCols(egwp_lst, Take(CO2_emissions, eidx)),
            Range(T - H),
            WindowUsed(forcing_profiles, T, H),
            eidx)

----------------------------------------------------------------------------
(* gtp_co2eq *)

\* mutant: normalized by the Total row (agtp_lst[0, H:])
gtp_lst_by_total(H, agtp_lst) ==
  DivByRow(TakeCols(agtp_lst, SliceIdx(NCols(agtp_lst), H, NCols(agtp_lst))), 0)

\* gtp_lst = agtp_lst[:, H:] / agtp_lst[1, H:]
gtp_lst(H, agtp_lst) ==
  DivByRow(TakeCols(agtp_lst, SliceIdx(NCols(agtp_lst), H, NCols(agtp_lst))), 1)

gtp_co2eq(H, forcing_profiles, temperature_profiles, yrs, CO2_emissions) ==
  LET agtp_lst == temperature_profiles
      cols == SliceIdx(NCols(agtp_lst), H, NCols(agtp_lst))
      eidx == SliceIdx(Len0(CO2_emissions), 0, Len0(yrs) - H)
      n == Len0(cols)
      m == Len0(eidx)
      w == BroadcastCols(n, m)
  IN IF ~Broadcastable(n, m) THEN Raised("gtp", H, "ValueError")
     ELSE Returned("gtp", H,
            MulCols(gtp_lst(H, agtp_lst), Take(CO2_emissions, eidx)),
            Range(Len0(yrs) - H),
            [c \in 0..(w - 1) |-> {cols[IF n = 1 THEN 0 ELSE c]}],
            [c \in 0..(w - 1) |-> eidx[IF m = 1 THEN 0 ELSE c]])

----------------------------------------------------------------------------
(* atr_co2eq *)

\* tab / H
DivByScalar(tab, H) ==
  [j \in 0..6 |-> [c \in DOMAIN tab[0] |-> RDiv(tab[j][c], R(H))]]

atr_co2eq(H, forcing_profiles, temperature_profiles, yrs, CO2_emissions) ==
  LET T == Len0(yrs)
      atr_lst == DivByScalar(ForwardSums(temperature_profiles, T, H), H)
      atrp_lst == DivByRow(atr_lst, 1)
      eidx == Range(T - H)
  IN IF OutOfBounds(CO2_emissions, eidx) THEN Raised("atr", H, "IndexError")
     ELSE Returned("atr", H,
            MulCols(atrp_lst, Take(CO2_emissions, eidx)),
            Range(T - H),
            WindowUsed(temperature_profiles, T, H),
            eidx)

----------------------------------------------------------------------------
(* gwps_co2eq and egwps_co2eq *)

\* s = 0.25, in line with Smith et al. (2021) for CH4
s == Rat(1, 4)

\* g = (1 - np.exp(-s / (1 - s))) / s = 1.1338..., to three decimals
g == Rat(1134, 1000)

\* agwph_co2[H - 1] raises IndexError outside the table (negative indices
\* count from the end)
AgwpOutOfBounds(H) == H - 1 >= Len0(FileAGWP) \/ H - 1 < -Len0(FileAGWP)

\* agwp_co2 = agwph_co2[H - 1] * 1e9
agwp_co2(H) ==
  LET k == IF H - 1 < 0 THEN H - 1 + Len0(FileAGWP) ELSE H - 1
  IN RMul(FileAGWP[k], R(1000000000))

\* mutant: np.add in place of np.subtract
dFdt_added(forcing_profiles, T) ==
  LET hi == Arange(dt, T)
      lo == Arange(0, T - dt)
  IN [j \in 0..6 |-> [c \in DOMAIN hi |->
        RDiv(RDiv(RAdd(forcing_profiles[j][hi[c]], forcing_profiles[j][lo[c]]),
                  R(dt)), R(1000))]]

\* dFdt = (forcing_profiles[:, dt..T-1] - forcing_profiles[:, 0..T-dt-1]) / dt / 1000.
dFdt(forcing_profiles, T) ==
  LET hi == Arange(dt, T)
      lo == Arange(0, T - dt)
  IN [j \in 0..6 |-> [c \in DOMAIN hi |->
        RDiv(RDiv(RSub(forcing_profiles[j][hi[c]], forcing_profiles[j][lo[c]]),
                  R(dt)), R(1000))]]

\* F_av = [[sum(forcing_profiles[j, i - dt + 1: i + 1]) / dt for i in dt..T-1]] / 1000.
F_av(forcing_profiles, T) ==
  LET is == Arange(dt, T)
  IN [j \in 0..6 |-> [c \in DOMAIN is |->
        RDiv(RDiv(WindowSum(forcing_profiles[j], is[c] - dt + 1, dt), R(dt)),
             R(1000))]]

\* g * ((1 - s) * dFdt * H / agwp_co2 + s * F_av / agwp_co2)
GwpStar(H, forcing_profiles, T) ==
  LET dF == dFdt(forcing_profiles, T)
      Fa == F_av(forcing_profiles, T)
      a == agwp_co2(H)
  IN [j \in 0..6 |-> [c \in DOMAIN dF[0] |->
        RMul(g, RAdd(RDiv(RMul(RMul(RSub(R(1), s), dF[j][c]), R(H)), a),
                     RDiv(RMul(s, Fa[j][c]), a)))]]

\* mutant: the CO2 row keeps its flow-derived value
SetRow1Skipped(tab, row) == tab

\* tab[1, :] = row
SetRow1(tab, row) ==
  [j \in 0..6 |-> [c \in DOMAIN tab[0] |-> IF j = 1 THEN row[c] ELSE tab[j][c]]]

\* the response indices read for the column of year index i: i and i - dt
\* (dFdt) and i - dt + 1 .. i (F_av)
StarUsed(T) ==
  LET is == Arange(dt, T)
  IN [c \in DOMAIN is |-> (is[c] - dt)..is[c]]

gwps_co2eq(H, forcing_profiles, temperature_profiles, yrs, CO2_emissions) ==
  LET T == Len0(yrs)
      yr_idx1 == Arange(dt, NCols(forcing_profiles))
  IN IF AgwpOutOfBounds(H) \/ OutOfBounds(CO2_emissions, yr_idx1)
     THEN Raised("gwps", H, "IndexError")
     ELSE Returned("gwps", H,
            SumSpecies(SetRow1(GwpStar(H, forcing_profiles, T),
                               Take(CO2_emissions, yr_idx1))),
            yr_idx1, StarUsed(T), yr_idx1)

egwps_co2eq(H, forcing_profiles, temperature_profiles, yrs, CO2_emissions) ==
  LET T == Len0(yrs)
      yr_idx1 == Arange(dt, NCols(forcing_profiles))
  IN IF AgwpOutOfBounds(H) \/ OutOfBounds(CO2_emissions, yr_idx1)
     THEN Raised("egwps", H, "IndexError")
     ELSE Returned("egwps", H,
            SumSpecies(ScaleSpecies(SetRow1(GwpStar(H, forcing_profiles, T),
                                            Take(CO2_emissions, yr_idx1)))),
            yr_idx1, StarUsed(T), yr_idx1)

----------------------------------------------------------------------------
(* The notebook: a directory is loaded, then converters are called on it *)

\* nothing is loaded and no converter was called
Fresh ==
  /\ pc = "start"
  /\ rf_arr = <<>>
  /\ dt_arr = <<>>
  /\ years = <<>>
  /\ co2_emis = <<>>
  /\ res = NoCall
  /\ ncalls = 0
  /\ args0 = <<>>

Init ==
  /\ directory \in Directories
  /\ Fresh

\* rf_arr, dt_arr, years = load_rf_dt(folder); co2_emis = np.loadtxt(...)[:, 1]
Load ==
  /\ pc = "start"
  /\ LET l == load_rf_dt(directory)
         E == FileCO2Emis(directory)
     IN IF l.outcome = "ok"
        THEN /\ rf_arr' = l.rf_arr
             /\ dt_arr' = l.dt_arr
             /\ years' = l.years
             /\ co2_emis' = E
             /\ args0' = <<l.rf_arr, l.dt_arr, l.years, E>>
             /\ pc' = "loaded"
        ELSE /\ pc' = "failed"
             /\ UNCHANGED <<rf_arr, dt_arr, years, co2_emis, args0>>
  /\ UNCHANGED <<directory, res, ncalls>>

\* a caller's own arrays: the species rows of the directory under a Total row
\* that is not their sum
Synthetic ==
  /\ pc = "start"
  /\ LET l == load_rf_dt(directory)
         rf == [l.rf_arr EXCEPT ![0] = [t \in DOMAIN l.rf_arr[0] |-> R(7000)]]
         dT == [l.dt_arr EXCEPT ![0] = [t \in DOMAIN l.dt_arr[0] |-> R(7)]]
         E == FileCO2Emis(directory)
     IN /\ rf_arr' = rf
        /\ dt_arr' = dT
        /\ years' = l.years
        /\ co2_emis' = E
        /\ args0' = <<rf, dT, l.years, E>>
  /\ pc' = "given"
  /\ UNCHANGED <<directory, res, ncalls>>

\* met_co2eq_lst[j]
Convert(fn, H, forcing_profiles, temperature_profiles, yrs, CO2_emissions) ==
  CASE fn = "rf" -> rf_co2eq(H, forcing_profiles, temperature_profiles, yrs, CO2_emissions)
    [] fn = "gwp" -> gwp_co2eq(H, forcing_profiles, temperature_profiles, yrs, CO2_emissions)
    [] fn = "egwp" -> egwp_co2eq(H, forcing_profiles, temperature_profiles, yrs, CO2_emissions)
    [] fn = "gtp" -> gtp_co2eq(H, forcing_profiles, temperature_profiles, yrs, CO2_emissions)
    [] fn = "atr" -> atr_co2eq(H, forcing_profiles, temperature_profiles, yrs, CO2_emissions)
    [] fn = "gwps" -> gwps_co2eq(H, forcing_profiles, temperature_profiles, yrs, CO2_emissions)
    [] fn = "egwps" -> egwps_co2eq(H, forcing_profiles, temperature_profiles, yrs, CO2_emissions)

\* mutant: egwp_co2eq scales the caller's forcing_profiles in place
ArgsAfterScaledInPlace(fn, H, forcing_profiles, temperature_profiles, yrs, CO2_emissions) ==
  IF fn = "egwp"
  THEN <<ScaleSpecies(forcing_profiles), temperature_profiles, yrs, CO2_emissions>>
  ELSE <<forcing_profiles, temperature_profiles, yrs, CO2_emissions>>

\* the caller's arrays after a call: every converter reads its arguments and
\* assigns only to arrays it built itself (rf_lst and agtp_lst are other
\* names of an argument, and are only read)
ArgsAfter(fn, H, forcing_profiles, temperature_profiles, yrs, CO2_emissions) ==
  <<forcing_profiles, temperature_profiles, yrs, CO2_emissions>>

\* a first call takes any horizon; a caller that goes on with the same arrays
\* keeps its horizon, up to MaxCalls calls
CanCall ==
  \/ pc \in {"loaded", "given"}
  \/ pc = "called" /\ ncalls < MaxCalls /\ res.H \in RepeatHorizons

CallHorizons ==
  IF pc = "called" THEN {res.H} ELSE Horizons(Len0(years))

\* met_res, met_idx = met_co2eq_lst[j](H, rf_arr, dt_arr, years, co2_emis)
Call(fn, H) ==
  /\ res' = Convert(fn, H, rf_arr, dt_arr, years, co2_emis)
  /\ LET a == ArgsAfter(fn, H, rf_arr, dt_arr, years, co2_emis)
     IN /\ rf_arr' = a[1]
        /\ dt_arr' = a[2]
        /\ years' = a[3]
        /\ co2_emis' = a[4]
  /\ pc' = "called"
  /\ ncalls' = ncalls + 1
  /\ UNCHANGED <<directory, args0>>

CallRf == CanCall /\ \E H \in CallHorizons : Call("rf", H)

CallGwp == CanCall /\ \E H \in CallHorizons : Call("gwp", H)

CallEgwp == CanCall /\ \E H \in CallHorizons : Call("egwp", H)

CallGtp == CanCall /\ \E H \in CallHorizons : Call("gtp", H)

CallAtr == CanCall /\ \E H \in CallHorizons : Call("atr", H)

CallGwps == CanCall /\ \E H \in CallHorizons : Call("gwps", H)

CallEgwps == CanCall /\ \E H \in CallHorizons : Call("egwps", H)

Next ==
  \/ Load
  \/ Synthetic
  \/ CallRf
  \/ CallGwp
  \/ CallEgwp
  \/ CallGtp
  \/ CallAtr
  \/ CallGwps
  \/ CallEgwps

Spec == Init /\ [][Next]_vars

\* the end-to-end scenario of the GTP converter: the directories above and the
\* 250-year synthetic series, loaded and converted by gtp_co2eq
InitE2E ==
  /\ directory \in Directories \cup {EndToEnd}
  /\ Fresh

NextE2E ==
  \/ Load
  \/ CallGtp

SpecE2E == InitE2E /\ [][NextE2E]_vars

\* the unit-forcing series of the EGWP converter: the directories above and the
\* series of constant forcing 1.0, loaded and converted by egwp_co2eq
InitUnit ==
  /\ directory \in Directories \cup UnitDirectories
  /\ Fresh

NextUnit ==
  \/ Load
  \/ CallEgwp

SpecUnit == InitUnit /\ [][NextUnit]_vars

\* directories as they may be found on disk: well formed, or with one
\* malformed file; what is loaded is converted by gwp_co2eq
InitFiles ==
  /\ directory \in Directories \cup DefectDirectories
  /\ Fresh

NextFiles ==
  \/ Load
  \/ CallGwp

SpecFiles == InitFiles /\ [][NextFiles]_vars

----------------------------------------------------------------------------
(* Properties *)

\* number of response years of the loaded series
NYears == Len0(years)

\* row 0 of a (7, n) array is the sum of its rows 1..6 in every column
TotalIsSum(arr) == \A t \in DOMAIN arr[0] : arr[0][t] = ColSum(arr, 1, 6, t)

\* the last call was fn and returned a (table, indices) pair
ReturnedBy(fn) == pc = "called" /\ res.fn = fn /\ res.outcome = "ok"

\* the CO2 response that column c of the result was normalized by: the sum of
\* the CO2 row of the response table over the indices the column was formed from
RECURSIVE SumOver(_, _)
SumOver(row, S) ==
  IF S = {} THEN R(0)
  ELSE LET k == CHOOSE x \in S : \A y \in S : x >= y
       IN RAdd(SumOver(row, S \ {k}), row[k])

\* the response table a converter reads: RF, or dT for GTP and ATR
ResponseOf(fn) == IF fn \in {"gtp", "atr"} THEN dt_arr ELSE rf_arr

(* C1: after load_rf_dt returns, in every year index the Total row of rf_arr
   and of dt_arr equals the sum of the six species rows (row 0 is not counted
   twice in its own sum). *)
C1_LoadedTotalIsSum ==
  pc = "loaded" => TotalIsSum(rf_arr) /\ TotalIsSum(dt_arr)

C1_Witness ==
  /\ pc = "loaded"
  /\ NYears > dt
  /\ rf_arr[0][dt] # R(0)
  /\ dt_arr[0][dt] # R(0)
  /\ \E j \in 1..6 : rf_arr[j][dt] # rf_arr[0][dt]

(* C2: for rf_co2eq, gwp_co2eq, egwp_co2eq, gtp_co2eq and atr_co2eq, when row 0
   of the response table read is the sum of its rows 1..6, every column of the
   result that was normalized by a non-zero CO2 response has row 0 equal to
   the sum of rows 1..6. *)
C2_RatioTotalIsSum ==
  \A fn \in {"rf", "gwp", "egwp", "gtp", "atr"} :
    (ReturnedBy(fn) /\ TotalIsSum(ResponseOf(fn))) =>
      \A c \in DOMAIN res.table[0] :
        SumOver(ResponseOf(fn)[1], res.used[c]) # R(0) =>
          res.table[0][c] = ColSum(res.table, 1, 6, c)

C2_Witness ==
  /\ ReturnedBy("egwp")
  /\ TotalIsSum(rf_arr)
  /\ res.H = 10
  /\ NCols(res.table) > dt - 10
  /\ \A c \in DOMAIN res.table[0] : IsFinite(res.table[0][c])
  /\ res.table[0][0] # res.table[1][0]

(* C3: for gwps_co2eq and egwps_co2eq, in every column the returned row 0 is
   the sum of the returned rows 1..6 (row 1 after the CO2 override, the rows of
   EGWP* after efficacy scaling), also when row 0 of the input is not the sum
   of its species rows. *)
C3_StarTotalIsSum ==
  \A fn \in {"gwps", "egwps"} :
    ReturnedBy(fn) =>
      \A c \in DOMAIN res.table[0] : res.table[0][c] = ColSum(res.table, 1, 6, c)

C3_Witness ==
  /\ ReturnedBy("egwps")
  /\ ~TotalIsSum(rf_arr)
  /\ NCols(res.table) >= 2
  /\ res.table[2][1] # R(0)

(* C4: in the result of gwps_co2eq and of egwps_co2eq the reported year indices
   are dt..T-1, and the CO2 row of the column reported for index t is the raw
   CO2_emissions[t], whatever H and the RF values. *)
C4_StarCO2RowIsEmission ==
  \A fn \in {"gwps", "egwps"} :
    ReturnedBy(fn) =>
      /\ DOMAIN res.idx = 0..(NYears - dt - 1)
      /\ DOMAIN res.table[1] = DOMAIN res.idx
      /\ \A c \in DOMAIN res.idx :
           /\ res.idx[c] = dt + c
           /\ res.table[1][c] = co2_emis[res.idx[c]]

C4_Witness ==
  /\ ReturnedBy("egwps")
  /\ res.H = 100
  /\ NCols(res.table) >= 2
  /\ res.table[1][1] = co2_emis[dt + 1]
  /\ co2_emis[dt + 1] # co2_emis[1]

(* C5: for 0 < H < T, rf_co2eq returns a table with exactly T-H-1 columns and
   an index sequence with exactly T-H-1 entries. *)
C5_RfLength ==
  \A H \in 1..(NYears - 1) :
    (pc = "called" /\ res.fn = "rf" /\ res.H = H) =>
      /\ res.outcome = "ok"
      /\ \A j \in 0..6 : Len0(res.table[j]) = NYears - H - 1
      /\ Len0(res.idx) = NYears - H - 1

C5_Witness ==
  /\ ReturnedBy("rf")
  /\ res.H = 10
  /\ NYears = dt + 1
  /\ NCols(res.table) = dt + 1 - 10 - 1

\* the last call was fn with a time horizon 0 < H < T
CalledInRange(fn) ==
  pc = "called" /\ res.fn = fn /\ res.H > 0 /\ res.H < NYears

\* the response indices a result was computed from
UsedIndices == UNION {res.used[c] : c \in DOMAIN res.used}

(* C6 as stated: rf_co2eq takes its forcing samples at exactly the indices
   H, H+1, ..., T-3 (the half-open range [H, T-2)). *)
C6_Original ==
  CalledInRange("rf") =>
    /\ res.outcome = "ok"
    /\ UsedIndices = res.H..(NYears - 3)

(* C6 as amended: rf_co2eq takes its forcing samples at exactly the indices
   H, H+1, ..., T-2 (the half-open range [H, T-1)), column c from index H+c. *)
C6_RfSamples ==
  CalledInRange("rf") =>
    /\ res.outcome = "ok"
    /\ UsedIndices = res.H..(NYears - 2)
    /\ \A c \in DOMAIN res.used : res.used[c] = {res.H + c}

C6_Witness ==
  /\ CalledInRange("rf")
  /\ res.H = 10
  /\ UsedIndices = 10..dt
  /\ NYears = dt + 2

(* C7 as stated: in rf_co2eq the multiplier formed from the forcing sample at
   index t is multiplied by CO2_emissions[t] and reported under year index t. *)
C7_Original ==
  CalledInRange("rf") =>
    /\ res.outcome = "ok"
    /\ \A c \in DOMAIN res.idx :
         LET t == res.H + c
         IN /\ res.idx[c] = t
            /\ \A i \in 0..6 :
                 res.table[i][c] =
                   RMul(RDiv(rf_arr[i][t], rf_arr[1][t]), co2_emis[t])

(* C7 as amended: in rf_co2eq the multiplier formed from the forcing sample at
   index t (H <= t <= T-2) is multiplied by CO2_emissions[t-H] and reported
   under year index t-H. *)
C7_RfAlignment ==
  CalledInRange("rf") =>
    /\ res.outcome = "ok"
    /\ DOMAIN res.idx = 0..(NYears - res.H - 2)
    /\ \A c \in DOMAIN res.idx :
         LET t == res.H + c
         IN /\ res.idx[c] = t - res.H
            /\ \A i \in 0..6 :
                 res.table[i][c] =
                   RMul(RDiv(rf_arr[i][t], rf_arr[1][t]), co2_emis[t - res.H])

C7_Witness ==
  /\ CalledInRange("rf")
  /\ res.outcome = "ok"
  /\ res.H = 3
  /\ NYears = dt + 2
  /\ res.idx[dt - 3] = dt - 3
  /\ IsFinite(res.table[2][dt - 3])
  /\ res.table[2][dt - 3] # RMul(RDiv(rf_arr[2][dt], rf_arr[1][dt]), co2_emis[dt])

(* C8: for 0 < H < T, gwp_co2eq returns exactly the year indices 0..T-H-1 and,
   for every row i and each such t, the sum of RF_i over t..t+H-1 divided by
   the sum of RF_1 over t..t+H-1, times CO2_emissions[t]; every window is the H
   indices t..t+H-1 and none reaches past T-1. *)
C8_GwpFormula ==
  CalledInRange("gwp") =>
    /\ res.outcome = "ok"
    /\ res.idx = [t \in 0..(NYears - res.H - 1) |-> t]
    /\ \A i \in 0..6 : DOMAIN res.table[i] = DOMAIN res.idx
    /\ \A t \in DOMAIN res.idx :
         /\ res.used[t] = t..(t + res.H - 1)
         /\ \A k \in res.used[t] : k <= NYears - 1
         /\ \A i \in 0..6 :
              res.table[i][t] =
                RMul(RDiv(SumTo(rf_arr[i], t, t + res.H - 1),
                          SumTo(rf_arr[1], t, t + res.H - 1)),
                     co2_emis[t])

C8_Witness ==
  /\ CalledInRange("gwp")
  /\ res.outcome = "ok"
  /\ res.H = 10
  /\ NYears = dt + 2
  /\ res.used[dt + 1 - 10] = (dt + 1 - 10)..dt
  /\ IsFinite(res.table[4][dt + 1 - 10])
  /\ res.table[4][dt + 1 - 10].n < 0

(* C9: for 0 < H < T, gtp_co2eq returns the year indices 0..T-H-1 and for every
   row i the value dT_i[t+H] / dT_1[t+H] * CO2_emissions[t]; with T = 250,
   H = 100, dT of CO2 constant 10, of every other species constant 1 and CO2
   emissions constant 100, the CO2 multiplier is 1, every non-CO2 multiplier
   is 1/10 and every non-CO2 CO2eq value is 10, at each of the 150 years. *)
C9_GtpFormula ==
  /\ CalledInRange("gtp") =>
       /\ res.outcome = "ok"
       /\ res.idx = [t \in 0..(NYears - res.H - 1) |-> t]
       /\ \A i \in 0..6 : DOMAIN res.table[i] = DOMAIN res.idx
       /\ \A t \in DOMAIN res.idx : \A i \in 0..6 :
            res.table[i][t] =
              RMul(RDiv(dt_arr[i][t + res.H], dt_arr[1][t + res.H]), co2_emis[t])
  /\ (directory = EndToEnd /\ CalledInRange("gtp") /\ res.H = 100) =>
       /\ res.outcome = "ok"
       /\ DOMAIN res.idx = 0..149
       /\ \A t \in 0..149 :
            /\ gtp_lst(res.H, dt_arr)[1][t] = R(1)
            /\ \A i \in 2..6 :
                 /\ gtp_lst(res.H, dt_arr)[i][t] = Rat(1, 10)
                 /\ res.table[i][t] = R(10)

C9_Witness ==
  /\ directory = EndToEnd
  /\ ReturnedBy("gtp")
  /\ res.H = 100
  /\ NYears = 250
  /\ NCols(res.table) = 150
  /\ res.table[6][149] = R(10)
  /\ res.table[1][149] = R(100)

\* the CO2 response that column t of a GWP or ATR result is normalized by
CO2WindowSum(fn, t) == SumTo(ResponseOf(fn)[1], t, t + res.H - 1)

(* C10 as stated: for gwp_co2eq and atr_co2eq the returned CO2 row equals
   CO2_emissions[t] at every valid t, whatever the RF/dT values. *)
C10_Original ==
  \A fn \in {"gwp", "atr"} :
    (CalledInRange(fn) /\ res.outcome = "ok") =>
      \A t \in DOMAIN res.idx : res.table[1][t] = co2_emis[t]

(* C10 as amended: for gwp_co2eq and atr_co2eq the returned CO2 row equals
   CO2_emissions[t] at every valid t at which the H-year sum of the CO2
   response (RF for GWP, dT for ATR) is not zero; where that sum is zero the
   CO2 row is NaN. *)
C10_CO2MultiplierIsOne ==
  \A fn \in {"gwp", "atr"} :
    (CalledInRange(fn) /\ res.outcome = "ok") =>
      \A t \in DOMAIN res.idx :
        /\ CO2WindowSum(fn, t) # R(0) => res.table[1][t] = co2_emis[t]
        /\ CO2WindowSum(fn, t) = R(0) => IsNaN(res.table[1][t])

C10_Witness ==
  /\ CalledInRange("gwp")
  /\ res.outcome = "ok"
  /\ res.H = 2
  /\ NYears > dt
  /\ IsNaN(res.table[1][0])
  /\ res.table[1][1] = co2_emis[1]
  /\ rf_arr[2][1] # rf_arr[1][1]

\* the efficacy of row j = 1..6 (CO2, H2O, O3, CH4, Contrails, PMO)
EfficacyOfRow(j) ==
  CASE j = 1 -> R(1)
    [] j = 2 -> Rat(114, 100)
    [] j = 3 -> Rat(137, 100)
    [] j = 4 -> Rat(118, 100)
    [] j = 5 -> Rat(59, 100)
    [] j = 6 -> R(1)

(* C11: in egwp_co2eq the forward H-year RF sum of each species row is scaled
   by its efficacy in the order CO2 = 1, H2O = 1.14, O3 = 1.37, CH4 = 1.18,
   Contrails = 0.59, PMO = 1.0; with every species' forcing constant 1.0 the
   scaled AGWP of H2O is 1.14 * H and that of CO2 is H, at every t in
   [0, T-H), and the H2O row of the result is 1.14 times the CO2 emission. *)
C11_EfficacyOrder ==
  CalledInRange("egwp") =>
    LET a == aegwp_lst(res.H, rf_arr, NYears)
    IN /\ res.outcome = "ok"
       /\ \A j \in 1..6 : DOMAIN a[j] = 0..(NYears - res.H - 1)
       /\ \A t \in 0..(NYears - res.H - 1) :
            /\ \A j \in 1..6 :
                 a[j][t] = RMul(SumTo(rf_arr[j], t, t + res.H - 1), EfficacyOfRow(j))
            /\ directory.scen = -1 =>
                 /\ a[2][t] = Rat(114 * res.H, 100)
                 /\ a[1][t] = R(res.H)
                 /\ res.table[2][t] = RMul(Rat(114, 100), co2_emis[t])

C11_Witness ==
  /\ CalledInRange("egwp")
  /\ res.outcome = "ok"
  /\ directory.scen = -1
  /\ res.H = 10
  /\ NYears = dt + 2
  /\ aegwp_lst(res.H, rf_arr, NYears)[2][dt + 1 - 10] = Rat(114, 10)
  /\ res.table[2][dt + 1 - 10] = Rat(114 * (dt + 2 - 10), 100)

\* what gwps_co2eq returns for the arguments of the last call
GwpsOfLastCall == gwps_co2eq(res.H, rf_arr, dt_arr, years, co2_emis)

(* C12: for identical inputs egwps_co2eq and gwps_co2eq return the same year
   indices and the same CO2 row, and each non-CO2 species row i = 2..6 of
   EGWP* equals the GWP* row times the efficacy of that species. *)
C12_EgwpsIsScaledGwps ==
  (pc = "called" /\ res.fn = "egwps") =>
    LET gw == GwpsOfLastCall
    IN /\ res.outcome = gw.outcome
       /\ res.outcome = "ok" =>
            /\ res.idx = gw.idx
            /\ res.table[1] = gw.table[1]
            /\ \A i \in 2..6 :
                 /\ DOMAIN res.table[i] = DOMAIN gw.table[i]
                 /\ \A c \in DOMAIN gw.table[i] :
                      res.table[i][c] = RMul(gw.table[i][c], EfficacyOfRow(i))

C12_Witness ==
  /\ pc = "called"
  /\ res.fn = "egwps"
  /\ res.outcome = "ok"
  /\ res.H = 100
  /\ NYears = dt + 2
  /\ res.idx = Arange(dt, dt + 2)
  /\ IsFinite(res.table[2][1])
  /\ res.table[2][1] # GwpsOfLastCall.table[2][1]
  /\ res.table[5][1] = RMul(GwpsOfLastCall.table[5][1], Rat(59, 100))

\* every row of the array holds one value at all times
ConstantOverTime(arr) ==
  \A j \in DOMAIN arr : \A k \in DOMAIN arr[j] : arr[j][k] = arr[j][0]

\* the mean of RF_i over the dt years t-dt+1..t, in W m-2
F_avg(i, t) == RDiv(RDiv(SumTo(rf_arr[i], t - dt + 1, t), R(dt)), R(1000))

(* C13: when gwps_co2eq is given RF that is constant over time, the
   forcing-rate term is zero at every t in [20, T) and each non-CO2 row
   i = 2..6 is g * s * F_avg[i, t] / AGWP_CO2(H), F_avg being the mean of RF_i
   over the years t-19..t divided by 1000. *)
C13_ConstantForcing ==
  (/\ pc = "called"
   /\ res.fn = "gwps"
   /\ res.H \in 1..AgwpRows
   /\ ConstantOverTime(rf_arr)) =>
    /\ res.outcome = "ok"
    /\ res.idx = Arange(dt, NYears)
    /\ \A t \in dt..(NYears - 1) :
         /\ \A j \in 0..6 : dFdt(rf_arr, NYears)[j][t - dt] = R(0)
         /\ \A i \in 2..6 :
              res.table[i][t - dt] =
                RDiv(RMul(RMul(g, s), F_avg(i, t)),
                     RMul(FileAGWP[res.H - 1], R(1000000000)))

C13_Witness ==
  /\ pc = "called"
  /\ res.fn = "gwps"
  /\ res.outcome = "ok"
  /\ res.H = 100
  /\ ConstantOverTime(rf_arr)
  /\ NYears = dt + 2
  /\ F_avg(2, dt + 1) = R(1)
  /\ res.table[2][1] = Rat(189, 2000)

(* C14: no converter modifies its arguments: after any sequence of calls the
   arrays handed to the converters hold the values they had when they were
   loaded or given, so the result of each call is the result of the same call
   made first, on the original arrays. *)
C14_ArgumentsUntouched ==
  pc = "called" =>
    /\ <<rf_arr, dt_arr, years, co2_emis>> = args0
    /\ res = Convert(res.fn, res.H, args0[1], args0[2], args0[3], args0[4])

C14_Witness ==
  /\ pc = "called"
  /\ ncalls = MaxCalls
  /\ res.fn = "gwp"
  /\ res.outcome = "ok"
  /\ res.H = 10
  /\ NYears = dt + 2
  /\ rf_arr = args0[1]
  /\ IsFinite(res.table[0][dt + 1 - 10])

\* some per-species RF or dT file has a number of data rows other than T
SomeFileOffLength(dir) ==
  \E file \in {"RF", "dT"} : \E i \in Species :
    FileRows(dir, file, i) # Len0(FileYears(dir))

\* a per-species file with exactly one data row, on an axis of several years
SomeFileSingleRow(dir) ==
  \E file \in {"RF", "dT"} : \E i \in Species :
    FileRows(dir, file, i) = 1 /\ Len0(FileYears(dir)) > 1

(* C15: load_rf_dt ends in an error whenever any per-species RF or dT file
   has a number of data rows different from T, including a file with a
   single data row. *)
C15_Original ==
  (pc # "start" /\ SomeFileOffLength(directory)) => pc = "failed"

\* what the loader does: a file of neither T rows nor one row ends the load in
\* ValueError, and a single-row file is spread over its whole row
C15_LoaderOnRowCounts ==
  (pc # "start" /\ SomeFileOffLength(directory)) =>
    IF SomeFileSingleRow(directory)
    THEN /\ pc # "failed"
         /\ LET d == directory.defect
                row == IF d.file = "RF" THEN rf_arr[d.sp + 1] ELSE dt_arr[d.sp + 1]
            IN \A t \in 0..(NYears - 1) : row[t] = row[0]
    ELSE pc = "failed"

C15_Witness ==
  /\ pc = "called"
  /\ SomeFileSingleRow(directory)
  /\ directory.defect.file = "RF"
  /\ directory.defect.sp = 1
  /\ NYears = dt + 1
  /\ rf_arr[2][dt] = rf_arr[2][0]
  /\ rf_arr[3][dt] # rf_arr[3][0]
  /\ res.outcome = "ok"
  /\ res.H = 10

\* some per-species file has T data rows under a year column that is not the
\* shared year axis
SomeFileOffAxis(dir) ==
  \E file \in {"RF", "dT"} : \E i \in Species :
    /\ FileRows(dir, file, i) = Len0(FileYears(dir))
    /\ FileYearColumn(dir, file, i) # FileYears(dir)

(* C16: load_rf_dt detects a per-species file whose year column differs from
   the shared year axis (with the same number of rows) and reports a
   data-consistency failure instead of returning arrays aligned by
   position. *)
C16_Original ==
  (pc # "start" /\ SomeFileOffAxis(directory)) => pc = "failed"

\* what the loader does: only column 1 of a species file is read, so the load
\* returns the arrays of the well-formed directory, aligned by position
C16_LoaderIgnoresYearColumns ==
  (pc # "start" /\ SomeFileOffAxis(directory)) =>
    LET l == load_rf_dt([directory EXCEPT !.defect = NoDefect])
    IN /\ pc # "failed"
       /\ args0[1] = l.rf_arr
       /\ args0[2] = l.dt_arr
       /\ args0[3] = l.years

C16_Witness ==
  /\ pc = "called"
  /\ SomeFileOffAxis(directory)
  /\ directory.defect.file = "dT"
  /\ directory.defect.sp = 5
  /\ FileYearColumn(directory, "dT", 5)[0] = 1941
  /\ years[0] = 1940
  /\ NYears = dt + 1
  /\ dt_arr[6] = FileDT(directory, 5)
  /\ res.outcome = "ok"
  /\ res.H = 10

\* the last call was one of the five ratio converters, with a horizon not
\* smaller than the number of response years
CalledBeyondAxis ==
  /\ pc = "called"
  /\ res.fn \in {"rf", "gwp", "egwp", "gtp", "atr"}
  /\ res.H >= NYears

(* C17: when the time horizon is not smaller than the number of response
   years (H >= T), each of rf_co2eq, gwp_co2eq, egwp_co2eq, gtp_co2eq and
   atr_co2eq ends in an explicit error outcome rather than returning a
   (possibly empty) CO2eq table and index range. *)
C17_Original == CalledBeyondAxis => res.outcome # "ok"

\* what the converters do: gwp_co2eq, egwp_co2eq and atr_co2eq build their
\* table over range(T - H), which is empty, and return a table of no columns;
\* rf_co2eq and gtp_co2eq return one whenever the emission slice broadcasts
C17_EmptyTables ==
  CalledBeyondAxis =>
    /\ res.fn \in {"gwp", "egwp", "atr"} => res.outcome = "ok"
    /\ res.outcome = "ok" =>
         /\ \A j \in 0..6 : DOMAIN res.table[j] = {}
         /\ DOMAIN res.idx = {}
    /\ (res.fn = "gtp" /\ res.H = NYears) => res.outcome = "ok"

C17_Witness ==
  /\ CalledBeyondAxis
  /\ res.fn = "gwp"
  /\ NYears = dt + 1
  /\ res.H = dt + 1
  /\ res.outcome = "ok"
  /\ NCols(res.table) = 0
  /\ Len0(res.idx) = 0

\* the last call was gwps_co2eq or egwps_co2eq with a horizon outside the
\* AGWP table 1..100
CalledOutsideTable ==
  /\ pc = "called"
  /\ res.fn \in {"gwps", "egwps"}
  /\ res.H \notin 1..AgwpRows

(* C18: gwps_co2eq and egwps_co2eq called with an integer H outside the
   lookup-table domain 1..100 (H = 0, negative H, or H > 100) end in an
   error; they never return a result computed from the AGWP entry of a
   different horizon (H = 0 does not use the entry for H = 100). *)
C18_Original == CalledOutsideTable => res.outcome # "ok"

\* what the converters do: H > 100 ends in IndexError, and H = 0 or H = -1
\* reads agwph_co2[H - 1] from the end of the table, the entry of horizon
\* 100 + H; with H = 0 the H2O row of GWP* is g * s * F_av / AGWP_CO2(100)
C18_TableWrapsAround ==
  CalledOutsideTable =>
    /\ res.H > AgwpRows => res.outcome = "IndexError"
    /\ res.H \in {-1, 0} =>
         /\ res.outcome = "ok"
         /\ agwp_co2(res.H) = RMul(FileAGWP[AgwpRows + res.H - 1], R(1000000000))
    /\ (res.H = 0 /\ res.fn = "gwps") =>
         \A t \in dt..(NYears - 1) :
           res.table[2][t - dt] =
             RDiv(RMul(RMul(g, s), F_avg(2, t)), agwp_co2(AgwpRows))

C18_Witness ==
  /\ CalledOutsideTable
  /\ res.fn = "gwps"
  /\ res.H = 0
  /\ res.outcome = "ok"
  /\ NYears = dt + 2
  /\ directory.scen = 2
  /\ IsFinite(res.table[2][1])
  /\ res.table[2][1] # R(0)
  /\ res.table[2][1] = RDiv(RMul(RMul(g, s), F_avg(2, dt + 1)), agwp_co2(AgwpRows))

RatioConverters == {"rf", "gwp", "egwp", "gtp", "atr"}

\* the quantity of row j that the converter fn divides in the column formed
\* from the response index k: the response itself (RFI, GTP), its H-year sum
\* (GWP), the sum scaled by the efficacy (EGWP, whose Total is the sum of the
\* scaled rows) or its H-year mean (ATR)
RECURSIVE Quantity(_, _, _)
Quantity(fn, j, k) ==
  IF j = 0 /\ fn = "egwp"
  THEN LET q == [i \in 1..6 |-> Quantity(fn, i, k)]
       IN RAdd(RAdd(RAdd(q[1], q[2]), RAdd(q[3], q[4])), RAdd(q[5], q[6]))
  ELSE CASE fn = "rf" -> rf_arr[j][k]
         [] fn = "gtp" -> dt_arr[j][k]
         [] fn = "gwp" -> SumTo(rf_arr[j], k, k + res.H - 1)
         [] fn = "egwp" -> RMul(SumTo(rf_arr[j], k, k + res.H - 1), EfficacyOfRow(j))
         [] fn = "atr" -> RMul(SumTo(dt_arr[j], k, k + res.H - 1), Rat(1, res.H))

\* the converter returned a table of all its columns (T - H, and T - H - 1
\* for RFI)
FullTable ==
  /\ res.outcome = "ok"
  /\ \A j \in 0..6 :
       DOMAIN res.table[j] =
         0..(NYears - res.H - 1 - (IF res.fn = "rf" THEN 1 ELSE 0))

\* column c of the result, formed from the response index k: NaN or Inf in
\* every row where the CO2 divisor is zero, the ratio times the CO2 emission
\* of the column where it is not
ColumnMarked(c, k) ==
  LET d == Quantity(res.fn, 1, k)
  IN \A j \in 0..6 :
       IF d = R(0) THEN ~IsFinite(res.table[j][c])
       ELSE /\ IsFinite(res.table[j][c])
            /\ res.table[j][c] =
                 RMul(RDiv(Quantity(res.fn, j, k), d), co2_emis[res.emis[c]])

\* the last call was a ratio converter with 0 < H < T
RatioCalledInRange == \E fn \in RatioConverters : CalledInRange(fn)

(* C19 as stated: when the CO2 response used as divisor is zero at some valid
   index t (RF_1[t] for RFI, the H-year sum of RF_1 from t for GWP and EGWP,
   dT_1[t+H] for GTP, the H-year mean of dT_1 from t for ATR), the converter
   still returns a full table: the entries of column t are NaN or Inf, every
   other column has its value, and the call does not abort. *)
C19_Original ==
  RatioCalledInRange =>
    /\ FullTable
    /\ \A t \in DOMAIN res.table[0] :
         ColumnMarked(t, IF res.fn = "gtp" THEN t + res.H ELSE t)

(* C19 as amended: the same, with RF_1[t+H] as the divisor of column t of
   RFI: a zero of the CO2 response at index t+H marks column t of rf_co2eq
   and of gtp_co2eq, a zero H-year sum or mean from t marks column t of
   gwp_co2eq, egwp_co2eq and atr_co2eq; the table is full, the other columns
   hold their values and the call does not abort. *)
C19_ZeroDivisorMarksColumn ==
  RatioCalledInRange =>
    /\ FullTable
    /\ \A t \in DOMAIN res.table[0] :
         ColumnMarked(t, IF res.fn \in {"rf", "gtp"} THEN t + res.H ELSE t)

C19_Witness ==
  /\ CalledInRange("rf")
  /\ FullTable
  /\ res.H = 2
  /\ NYears = dt + 2
  /\ rf_arr[1][3] = R(0)
  /\ rf_arr[1][2] # R(0)
  /\ \A j \in 0..6 : ~IsFinite(res.table[j][1])
  /\ \A j \in 0..6 : IsFinite(res.table[j][0])
  /\ res.table[2][0] = RMul(RDiv(rf_arr[2][2], rf_arr[1][2]), co2_emis[0])

====
